---- MODULE Spec2Model ----
(***************************************************************************)
(* calc_particle_mass.py: builds data/particle_masses.txt, one line per    *)
(* |PDG| group of the particle catalog, quarks and nuclei/ions left out,   *)
(* neutrinos and the photon forced to mass 0.                              *)
(*                                                                         *)
(* Numbers.  A catalog mass is a natural number of micro-MeV (1e-6 MeV).   *)
(* MEV_TO_KG is the mantissa of 1.78266192e-30, i.e. 178266192e-38, so a   *)
(* mass in kg is a natural number of 1e-44 kg.  Such products exceed the   *)
(* range of TLC integers, so they are kept as little-endian sequences of   *)
(* decimal digits (<<>> is zero).                                          *)
(***************************************************************************)
EXTENDS Integers, Sequences, FiniteSets, TLC

\* ---- constants / units --------------------------------------------------
MEV_TO_KG == 178266192

QuarkIds == {1, 2, 3, 4, 5, 6}

NucleusMin == 1000000000

MasslessIds == {12, 14, 16, 22}

\* Fractional digits of the "{m_kg:.10e}" field.
KgFracDigits == 10

\* Significant digits of the "{m_mev:.6g}" field.
MevSigDigits == 6

\* ---- bounds of the model ------------------------------------------------
\* Largest number of records in the catalog.
MaxCat == 2

\* Signed identifiers a catalog may hold: a quark, an ordinary lepton, a
\* massless-by-convention particle and the smallest nucleus code, each in
\* both signs.
PdgIds == {-6, 6, -11, 11, -22, 22, -NucleusMin, NucleusMin}

\* A catalog mass: None, a float NaN, or a float of val micro-MeV.
None == [tag |-> "None", val |-> 0]

NaN == [tag |-> "nan", val |-> 0]

Float(n) == [tag |-> "float", val |-> n]

\* Catalog values of (mass, name): mass None, mass NaN, a zero mass on a
\* record without a name, and a mass of seven significant digits
\* (1.234567 MeV).
RecordValues ==
    { [mass |-> None,           name |-> "n"],
      [mass |-> NaN,            name |-> "n"],
      [mass |-> Float(0),       name |-> ""],
      [mass |-> Float(1234567), name |-> "n"] }

\* ---- arithmetic ---------------------------------------------------------
abs(x) == IF x < 0 THEN -x ELSE x

RECURSIVE Digits(_)
\* Little-endian decimal digits of a natural number; <<>> for 0.
Digits(n) == IF n = 0 THEN <<>> ELSE <<n % 10>> \o Digits(n \div 10)

RECURSIVE ConvSum(_, _, _, _)
\* Sum of a[i] * b[k + 1 - i] over the i >= from for which both exist.
ConvSum(a, b, k, from) ==
    IF from > Len(a) THEN 0
    ELSE (IF k + 1 - from >= 1 /\ k + 1 - from <= Len(b)
          THEN a[from] * b[k + 1 - from] ELSE 0)
         + ConvSum(a, b, k, from + 1)

RECURSIVE Carry(_, _, _)
\* Carry propagation over the column sums cols[pos..], carry c coming in.
Carry(cols, pos, c) ==
    IF pos > Len(cols) THEN Digits(c)
    ELSE <<(cols[pos] + c) % 10>> \o Carry(cols, pos + 1, (cols[pos] + c) \div 10)

\* Product of two digit sequences (float multiplication m_mev * MEV_TO_KG,
\* taken exactly).
Mul(a, b) ==
    IF a = <<>> \/ b = <<>> THEN <<>>
    ELSE Carry([k \in 1..(Len(a) + Len(b) - 1) |-> ConvSum(a, b, k, 1)], 1, 0)

RECURSIVE IsZeros(_, _)
\* Whether the digits d[1..upto] are all 0.
IsZeros(d, upto) == upto = 0 \/ (d[upto] = 0 /\ IsZeros(d, upto - 1))

RECURSIVE Increment(_)
\* The digit sequence plus one.
Increment(d) ==
    IF d = <<>> THEN <<1>>
    ELSE IF d[1] < 9 THEN <<d[1] + 1>> \o Tail(d)
    ELSE <<0>> \o Increment(Tail(d))

\* A nonzero digit sequence rounded to s significant digits (half to even,
\* as Python's float formatting rounds a decimal tie): the s digits kept
\* (little-endian) and the decimal exponent of their leading digit.
RoundSig(d, s) ==
    IF Len(d) <= s
    THEN [digits |-> [i \in 1..s |-> IF i <= s - Len(d) THEN 0 ELSE d[i - (s - Len(d))]],
          exp |-> Len(d) - 1]
    ELSE LET cut  == Len(d) - s
             kept == SubSeq(d, cut + 1, Len(d))
             up   == \/ d[cut] > 5
                     \/ d[cut] = 5 /\ ~IsZeros(d, cut - 1)
                     \/ d[cut] = 5 /\ IsZeros(d, cut - 1) /\ kept[1] % 2 = 1
             r    == IF up THEN Increment(kept) ELSE kept
         IN  IF Len(r) > s
             THEN [digits |-> SubSeq(r, 2, Len(r)), exp |-> Len(d)]
             ELSE [digits |-> r, exp |-> Len(d) - 1]

RECURSIVE StripZeros(_)
\* Drops the trailing zeros of the fraction (the low-order digits).
StripZeros(d) == IF Len(d) > 1 /\ d[1] = 0 THEN StripZeros(Tail(d)) ELSE d

\* f"{m_kg:.10e}" if m_kg != 0.0 else "0.0"; the exponent is relative to
\* the unit 1e-44 kg.
FormatKg(m_kg) ==
    IF m_kg = <<>> THEN [text |-> "0.0", digits |-> <<>>, exp |-> 0]
    ELSE LET r == RoundSig(m_kg, KgFracDigits + 1)
         IN  [text |-> "d.dddddddddde+xx", digits |-> r.digits, exp |-> r.exp]

\* f"{m_mev:.6g}": six significant digits, trailing zeros removed; the
\* exponent is relative to the unit 1e-6 MeV.
FormatMev(m_mev) ==
    IF m_mev = 0 THEN [digits |-> <<0>>, exp |-> 0]
    ELSE LET r == RoundSig(Digits(m_mev), MevSigDigits)
         IN  [digits |-> StripZeros(r.digits), exp |-> r.exp]

\* ---- state --------------------------------------------------------------
VARIABLES
    pc,              \* the statement the script is at
    catalog,         \* the particle table: pdgid -> [mass, name]
    order,           \* the order in which Particle.findall() yields the records
    i,               \* position of the grouping loop in order
    stdout,          \* the identifiers printed by the grouping loop
    absid_to_pdgid,  \* |PDG| -> representative PDGID
    j,               \* position of the row loop in the sorted keys
    rows,            \* the prepared rows (pdgid, m_kg, name, m_mev)
    folderExists,    \* whether the directory "data" exists
    fileExists,      \* whether data/particle_masses.txt exists
    fileLines,       \* the lines of data/particle_masses.txt
    foutOpen,        \* whether fout is open
    git_hash,        \* result of gh.get_git_revision_hash()
    k,               \* position of the payload loop in rows
    exitMsg,         \* what the interpreter reported when the script died
    disk0            \* the directory and the file as the run found them

vars == <<pc, catalog, order, i, stdout, absid_to_pdgid, j, rows, folderExists,
          fileExists, fileLines, foutOpen, git_hash, k, exitMsg, disk0>>

\* ---- the catalog (Particle) ---------------------------------------------
\* Particle.from_pdgid(pdgid) returns a record, or raises ParticleNotFound.
Resolves(cat, pdgid) == pdgid \in DOMAIN cat

\* All orders in which the records of a set can be enumerated.
Orders(S) ==
    { o \in [1..Cardinality(S) -> S] : \A a, b \in 1..Cardinality(S) : o[a] = o[b] => a = b }

Catalogs ==
    UNION { [S -> RecordValues] : S \in { T \in SUBSET PdgIds : Cardinality(T) <= MaxCat } }

\* ---- classification -----------------------------------------------------
is_quark(pdgid) == abs(pdgid) \in QuarkIds

\* is_nucleus_or_ion with > for >=.
is_nucleus_or_ion_Strict(pdgid) == abs(pdgid) > NucleusMin

\* Returns True or None; None is falsy.
is_nucleus_or_ion(pdgid) == abs(pdgid) >= NucleusMin

\* ---- mass resolution ----------------------------------------------------
isinstance_float(m) == m.tag \in {"float", "nan"}

isnan(m) == m.tag = "nan"

\* forced_mass_mev testing pdgid, not abs(pdgid), against the massless set.
forced_mass_mev_Signed(cat, pdgid) ==
    IF pdgid \in MasslessIds THEN [raised |-> "", val |-> 0]
    ELSE IF ~Resolves(cat, pdgid) THEN [raised |-> "ParticleNotFound", val |-> 0]
    ELSE LET m == cat[pdgid].mass
         IN  IF m = None \/ (isinstance_float(m) /\ isnan(m))
             THEN [raised |-> "ValueError", val |-> 0]
             ELSE [raised |-> "", val |-> m.val]

\* forced_mass_mev without the NaN test.
forced_mass_mev_NoNaN(cat, pdgid) ==
    IF abs(pdgid) \in MasslessIds THEN [raised |-> "", val |-> 0]
    ELSE IF ~Resolves(cat, pdgid) THEN [raised |-> "ParticleNotFound", val |-> 0]
    ELSE LET m == cat[pdgid].mass
         IN  IF m = None
             THEN [raised |-> "ValueError", val |-> 0]
             ELSE [raised |-> "", val |-> m.val]

\* forced_mass_mev: [raised |-> "", val |-> m] on return; otherwise raised
\* names the exception.
forced_mass_mev(cat, pdgid) ==
    IF abs(pdgid) \in MasslessIds THEN [raised |-> "", val |-> 0]
    ELSE IF ~Resolves(cat, pdgid) THEN [raised |-> "ParticleNotFound", val |-> 0]
    ELSE LET m == cat[pdgid].mass
         IN  IF m = None \/ (isinstance_float(m) /\ isnan(m))
             THEN [raised |-> "ValueError", val |-> 0]
             ELSE [raised |-> "", val |-> m.val]

\* ---- grouping -----------------------------------------------------------
\* The grouping statements without the positive lookup: the first record
\* seen is the representative.
GroupRecord_FirstSeen(cat, map, pdgid) ==
    LET aid == abs(pdgid)
    IN  IF aid \in DOMAIN map THEN map
        ELSE [a \in DOMAIN map \cup {aid} |-> IF a # aid THEN map[a] ELSE pdgid]

\* The grouping statements without the membership test and the positive
\* lookup: the last record seen is the representative.
GroupRecord_LastSeen(cat, map, pdgid) ==
    LET aid == abs(pdgid)
    IN  [a \in DOMAIN map \cup {aid} |-> IF a # aid THEN map[a] ELSE pdgid]

\* Lines 60-66 for one record that passed both filters: the map after it.
GroupRecord(cat, map, pdgid) ==
    LET aid == abs(pdgid)
    IN  IF aid \in DOMAIN map THEN map
        ELSE [a \in DOMAIN map \cup {aid} |->
                 IF a # aid THEN map[a]
                 ELSE IF Resolves(cat, aid) THEN aid ELSE pdgid]

\* Whether the loop body reaches print(p.pdgid) for the record.
Printed(pdgid) == ~is_quark(pdgid)

\* Whether the loop body reaches the grouping statements for the record.
Grouped(pdgid) == ~is_quark(pdgid) /\ ~is_nucleus_or_ion(pdgid)

RECURSIVE GroupFrom(_, _, _, _)
\* The whole grouping loop over the order ord from position idx on.
GroupFrom(cat, map, ord, idx) ==
    IF idx > Len(ord) THEN map
    ELSE GroupFrom(cat,
                   IF Grouped(ord[idx]) THEN GroupRecord(cat, map, ord[idx]) ELSE map,
                   ord, idx + 1)

\* ---- rows ---------------------------------------------------------------
RECURSIVE SortedReverse(_)
\* sorted(keys, reverse=True).
SortedReverse(S) ==
    IF S = {} THEN <<>>
    ELSE LET m == CHOOSE x \in S : \A y \in S : x >= y
         IN  <<m>> \o SortedReverse(S \ {m})

RECURSIVE Sorted(_)
\* sorted(keys): ascending.
Sorted(S) ==
    IF S = {} THEN <<>>
    ELSE LET m == CHOOSE x \in S : \A y \in S : x <= y
         IN  <<m>> \o Sorted(S \ {m})

\* Particle.from_pdgid(pdgid).name or f"PDG{pdgid}"
NameOf(cat, pdgid) ==
    IF cat[pdgid].name # "" THEN [text |-> cat[pdgid].name, pdg |-> 0]
    ELSE [text |-> "PDG", pdg |-> pdgid]

\* The row without the unit conversion.
Row_NoConversion(cat, pdgid, m_mev) ==
    [pdgid |-> pdgid,
     m_kg  |-> Digits(m_mev),
     name  |-> NameOf(cat, pdgid),
     m_mev |-> m_mev]

\* The tuple appended to rows (lines 77-79) for a mass m_mev.
Row(cat, pdgid, m_mev) ==
    [pdgid |-> pdgid,
     m_kg  |-> Mul(Digits(m_mev), Digits(MEV_TO_KG)),
     name  |-> NameOf(cat, pdgid),
     m_mev |-> m_mev]

\* ---- output lines -------------------------------------------------------
HeaderLine == [kind |-> "header"]

VersionLine(hash) == [kind |-> "version", hash |-> hash]

\* f"{pdgid:>6d} {m_kg_str:<18}    # {name} ({m_mev:.6g} MeV/c^2)\n"
PayloadLine(row) ==
    [kind |-> "row", pdgid |-> row.pdgid, mass_kg |-> FormatKg(row.m_kg),
     name |-> row.name, mass_mev |-> FormatMev(row.m_mev)]

\* A line of a file that some other program left behind.
StaleLine == [kind |-> "stale"]

\* What gh.get_git_revision_hash() can do: return a str, return bytes (the
\* concatenation then raises TypeError), or raise.
GitOutcomes == {"str", "bytes", "raises"}

\* ---- the script ---------------------------------------------------------
\* The directory and the file before the first run: neither exists, or both
\* do and the file holds something else.
Disks ==
    { [folder |-> FALSE, exists |-> FALSE, lines |-> <<>>],
      [folder |-> TRUE,  exists |-> TRUE,  lines |-> <<StaleLine>>] }

\* The state of the interpreter when the script starts.
Start ==
    /\ pc = "import_gitHelp"
    /\ i = 1
    /\ stdout = <<>>
    /\ absid_to_pdgid = <<>>
    /\ j = 1
    /\ rows = <<>>
    /\ foutOpen = FALSE
    /\ git_hash = "unset"
    /\ k = 1
    /\ exitMsg = ""

Init ==
    /\ Start
    /\ catalog \in Catalogs
    /\ order \in Orders(DOMAIN catalog)
    /\ disk0 \in Disks
    /\ folderExists = disk0.folder
    /\ fileExists = disk0.exists
    /\ fileLines = disk0.lines

\* Line 2: import gitHelp as gh.  Nothing guards it.
ImportGitHelp ==
    /\ pc = "import_gitHelp"
    /\ \E found \in BOOLEAN :
          IF found
          THEN pc' = "import_particle" /\ exitMsg' = exitMsg
          ELSE pc' = "exit" /\ exitMsg' = "ModuleNotFoundError: gitHelp"
    /\ UNCHANGED <<catalog, order, i, stdout, absid_to_pdgid, j, rows, folderExists,
                   fileExists, fileLines, foutOpen, git_hash, k, disk0>>

\* The import guard with the output folder block moved above it.
ImportParticle_FolderFirst ==
    /\ pc = "import_particle"
    /\ folderExists' = TRUE
    /\ \E found \in BOOLEAN :
          IF found
          THEN pc' = "group" /\ exitMsg' = exitMsg
          ELSE pc' = "exit" /\ exitMsg' = "This script requires 'particle'"
    /\ UNCHANGED <<catalog, order, i, stdout, absid_to_pdgid, j, rows,
                   fileExists, fileLines, foutOpen, git_hash, k, disk0>>

\* Lines 20-26: from particle import Particle, SystemExit on ImportError.
ImportParticle ==
    /\ pc = "import_particle"
    /\ \E found \in BOOLEAN :
          IF found
          THEN pc' = "group" /\ exitMsg' = exitMsg
          ELSE pc' = "exit" /\ exitMsg' = "This script requires 'particle'"
    /\ UNCHANGED <<catalog, order, i, stdout, absid_to_pdgid, j, rows, folderExists,
                   fileExists, fileLines, foutOpen, git_hash, k, disk0>>

\* Lines 53-66: one iteration of the grouping loop.
GroupStep ==
    /\ pc = "group"
    /\ i <= Len(order)
    /\ LET pdgid == order[i]
       IN  /\ stdout' = IF Printed(pdgid) THEN Append(stdout, pdgid) ELSE stdout
           /\ absid_to_pdgid' = IF Grouped(pdgid)
                                THEN GroupRecord(catalog, absid_to_pdgid, pdgid)
                                ELSE absid_to_pdgid
    /\ i' = i + 1
    /\ UNCHANGED <<pc, catalog, order, j, rows, folderExists, fileExists, fileLines,
                   foutOpen, git_hash, k, exitMsg, disk0>>

\* Line 53: findall() is exhausted.
GroupDone ==
    /\ pc = "group"
    /\ i > Len(order)
    /\ pc' = "rows"
    /\ UNCHANGED <<catalog, order, i, stdout, absid_to_pdgid, j, rows, folderExists,
                   fileExists, fileLines, foutOpen, git_hash, k, exitMsg, disk0>>

\* Lines 70-79: one iteration of the row loop.
RowStep ==
    /\ pc = "rows"
    /\ j <= Len(Sorted(DOMAIN absid_to_pdgid))
    /\ LET aid   == Sorted(DOMAIN absid_to_pdgid)[j]
           pdgid == absid_to_pdgid[aid]
           m     == forced_mass_mev(catalog, pdgid)
       IN  IF m.raised = "ValueError"
           THEN j' = j + 1 /\ UNCHANGED <<pc, rows, exitMsg>>
           ELSE IF m.raised # "" \/ ~Resolves(catalog, pdgid)
           THEN pc' = "exit" /\ exitMsg' = "ParticleNotFound" /\ UNCHANGED <<j, rows>>
           ELSE /\ rows' = Append(rows, Row(catalog, pdgid, m.val))
                /\ j' = j + 1
                /\ UNCHANGED <<pc, exitMsg>>
    /\ UNCHANGED <<catalog, order, i, stdout, absid_to_pdgid, folderExists, fileExists,
                   fileLines, foutOpen, git_hash, k, disk0>>

\* Line 70: the sorted keys are exhausted.
RowsDone ==
    /\ pc = "rows"
    /\ j > Len(Sorted(DOMAIN absid_to_pdgid))
    /\ pc' = "folder"
    /\ UNCHANGED <<catalog, order, i, stdout, absid_to_pdgid, j, rows, folderExists,
                   fileExists, fileLines, foutOpen, git_hash, k, exitMsg, disk0>>

\* Lines 82-84: os.makedirs unless the directory exists.
MakeFolder ==
    /\ pc = "folder"
    /\ folderExists' = TRUE
    /\ pc' = "open"
    /\ UNCHANGED <<catalog, order, i, stdout, absid_to_pdgid, j, rows, fileExists,
                   fileLines, foutOpen, git_hash, k, exitMsg, disk0>>

\* open(..., "a"): the file is created or appended to.
OpenFile_Append ==
    /\ pc = "open"
    /\ fileExists' = TRUE
    /\ fileLines' = fileLines
    /\ foutOpen' = TRUE
    /\ pc' = "header"
    /\ UNCHANGED <<catalog, order, i, stdout, absid_to_pdgid, j, rows, folderExists,
                   git_hash, k, exitMsg, disk0>>

\* Line 87: open(..., "w") creates the file or truncates it.
OpenFile ==
    /\ pc = "open"
    /\ fileExists' = TRUE
    /\ fileLines' = <<>>
    /\ foutOpen' = TRUE
    /\ pc' = "header"
    /\ UNCHANGED <<catalog, order, i, stdout, absid_to_pdgid, j, rows, folderExists,
                   git_hash, k, exitMsg, disk0>>

\* Line 89.
WriteHeader ==
    /\ pc = "header"
    /\ fileLines' = Append(fileLines, HeaderLine)
    /\ pc' = "version"
    /\ UNCHANGED <<catalog, order, i, stdout, absid_to_pdgid, j, rows, folderExists,
                   fileExists, foutOpen, git_hash, k, exitMsg, disk0>>

\* Lines 90-94: the version line, any exception swallowed.
WriteVersion ==
    /\ pc = "version"
    /\ \E outcome \in GitOutcomes :
          CASE outcome = "str" ->
                  /\ git_hash' = "a1b2c3"
                  /\ fileLines' = Append(fileLines, VersionLine("a1b2c3"))
            [] outcome = "bytes" ->
                  /\ git_hash' = "b'a1b2c3'"
                  /\ fileLines' = fileLines
            [] outcome = "raises" ->
                  /\ git_hash' = git_hash
                  /\ fileLines' = fileLines
    /\ pc' = "payload"
    /\ UNCHANGED <<catalog, order, i, stdout, absid_to_pdgid, j, rows, folderExists,
                   fileExists, foutOpen, k, exitMsg, disk0>>

\* Lines 97-99: one iteration of the payload loop.
WritePayload ==
    /\ pc = "payload"
    /\ k <= Len(rows)
    /\ fileLines' = Append(fileLines, PayloadLine(rows[k]))
    /\ k' = k + 1
    /\ UNCHANGED <<pc, catalog, order, i, stdout, absid_to_pdgid, j, rows, folderExists,
                   fileExists, foutOpen, git_hash, exitMsg, disk0>>

\* Line 101: fout.close().
CloseFile ==
    /\ pc = "payload"
    /\ k > Len(rows)
    /\ foutOpen' = FALSE
    /\ pc' = "done"
    /\ UNCHANGED <<catalog, order, i, stdout, absid_to_pdgid, j, rows, folderExists,
                   fileExists, fileLines, git_hash, k, exitMsg, disk0>>

\* The script is invoked again on the same catalog, with the directory and
\* the file as the previous invocation left them.
Rerun ==
    /\ pc = "done"
    /\ pc' = "import_gitHelp"
    /\ i' = 1
    /\ stdout' = <<>>
    /\ absid_to_pdgid' = <<>>
    /\ j' = 1
    /\ rows' = <<>>
    /\ foutOpen' = FALSE
    /\ git_hash' = "unset"
    /\ k' = 1
    /\ exitMsg' = ""
    /\ disk0' = [folder |-> folderExists, exists |-> fileExists, lines |-> fileLines]
    /\ UNCHANGED <<catalog, order, folderExists, fileExists, fileLines>>

Next ==
    \/ ImportGitHelp
    \/ ImportParticle
    \/ GroupStep
    \/ GroupDone
    \/ RowStep
    \/ RowsDone
    \/ MakeFolder
    \/ OpenFile
    \/ WriteHeader
    \/ WriteVersion
    \/ WritePayload
    \/ CloseFile
    \/ Rerun

Spec == Init /\ [][Next]_vars

\* ---- what the run is expected to produce --------------------------------
\* The |PDG| values of the records that are neither quarks nor nuclei/ions.
SurvivingAbs(cat) == { abs(p) : p \in { q \in DOMAIN cat : Grouped(q) } }

\* The representative of a group, stated without the iteration order.
Rep(cat, aid) == IF aid \in DOMAIN cat THEN aid ELSE -aid

\* Whether the group has a mass: massless by convention, or a catalog mass
\* that is present and not NaN.
HasMass(cat, aid) == aid \in MasslessIds \/ cat[Rep(cat, aid)].mass.tag = "float"

MassOf(cat, aid) == IF aid \in MasslessIds THEN 0 ELSE cat[Rep(cat, aid)].mass.val

\* The payload line of a group, written out for the masses a catalog of
\* this model can hold (0 and 1.234567 MeV).
ExpectedLine(cat, aid) ==
    LET rep == Rep(cat, aid)
    IN  [kind     |-> "row",
         pdgid    |-> rep,
         mass_kg  |-> IF MassOf(cat, aid) = 0
                      THEN [text |-> "0.0", digits |-> <<>>, exp |-> 0]
                      ELSE [text |-> "d.dddddddddde+xx",
                            digits |-> <<6, 8, 7, 5, 5, 1, 8, 0, 0, 2, 2>>, exp |-> 14],
         name     |-> IF cat[rep].name = "" THEN [text |-> "PDG", pdg |-> rep]
                      ELSE [text |-> cat[rep].name, pdg |-> 0],
         mass_mev |-> IF MassOf(cat, aid) = 0 THEN [digits |-> <<0>>, exp |-> 0]
                      ELSE [digits |-> <<7, 5, 4, 3, 2, 1>>, exp |-> 6]]

\* The file of a completed run, from the catalog and the revision hash alone.
ExpectedFile(cat, hash) ==
    LET keys == Sorted({ a \in SurvivingAbs(cat) : HasMass(cat, a) })
    IN  <<HeaderLine>>
        \o (IF hash = "a1b2c3" THEN <<VersionLine(hash)>> ELSE <<>>)
        \o [n \in 1..Len(keys) |-> ExpectedLine(cat, keys[n])]

IsPrefix(a, b) == Len(a) <= Len(b) /\ a = SubSeq(b, 1, Len(a))

IsRowLine(line) == line.kind = "row"

\* The payload lines of the file.
RowLines == SelectSeq(fileLines, IsRowLine)

\* The statements before the output folder block.
EarlyPcs == {"import_gitHelp", "import_particle", "group", "rows", "exit"}

\* The statements from the open on, in a run that has written to the file.
WritingPcs == {"header", "version", "payload", "done"}

DiskUntouched ==
    /\ folderExists = disk0.folder
    /\ fileExists = disk0.exists
    /\ fileLines = disk0.lines
    /\ ~foutOpen

\* ---- claims -------------------------------------------------------------

\* C1: the prepared rows, and the payload lines written to the file, have
\* pairwise distinct abs(identifier) values and are strictly ascending by
\* abs(identifier), for every catalog and every iteration order.
C1_SortedUnique ==
    /\ \A a, b \in 1..Len(rows) : a < b => abs(rows[a].pdgid) < abs(rows[b].pdgid)
    /\ pc \in WritingPcs =>
          \A a, b \in 1..Len(RowLines) :
             a < b => abs(RowLines[a].pdgid) < abs(RowLines[b].pdgid)

\* C1 witness: a finished run with two payload lines whose records the
\* catalog enumerated in descending order of abs(identifier).
C1_Witness ==
    /\ pc = "done"
    /\ Len(RowLines) = 2
    /\ Len(order) = 2
    /\ abs(order[1]) > abs(order[2])

\* C2: every row whose absolute identifier is in {12, 14, 16, 22} has mass
\* exactly 0 and its mass field is the literal "0.0", whatever mass the
\* catalog holds for the identifier.
C2_ForcedZero ==
    /\ \A n \in 1..Len(rows) :
          abs(rows[n].pdgid) \in MasslessIds => rows[n].m_kg = <<>> /\ rows[n].m_mev = 0
    /\ pc \in WritingPcs =>
          \A n \in 1..Len(RowLines) :
             abs(RowLines[n].pdgid) \in MasslessIds => RowLines[n].mass_kg.text = "0.0"

\* C2 witness: a finished run that wrote the line of a massless-by-convention
\* identifier whose catalog mass is a nonzero number.
C2_Witness ==
    /\ pc = "done"
    /\ \E n \in 1..Len(RowLines) :
          /\ abs(RowLines[n].pdgid) \in MasslessIds
          /\ catalog[RowLines[n].pdgid].mass = Float(1234567)

\* C3: no row and no payload line has an absolute identifier in {1..6} or
\* >= 1,000,000,000, and no such identifier is ever a key or a value of the
\* grouping map.
C3_Excluded ==
    LET Excluded(id) == abs(id) \in QuarkIds \/ abs(id) >= NucleusMin
    IN  /\ \A a \in DOMAIN absid_to_pdgid : ~Excluded(a) /\ ~Excluded(absid_to_pdgid[a])
        /\ \A n \in 1..Len(rows) : ~Excluded(rows[n].pdgid)
        /\ pc \in WritingPcs => \A n \in 1..Len(RowLines) : ~Excluded(RowLines[n].pdgid)

\* C3 witness: a finished run over a catalog that holds the smallest nucleus
\* code next to a record that was written.
C3_Witness ==
    /\ pc = "done"
    /\ \E p \in DOMAIN catalog : abs(p) = NucleusMin
    /\ Len(RowLines) = 1

\* C4: for every row whose absolute identifier is not massless by
\* convention, the row's energy-unit mass is the catalog mass of the row's
\* identifier and the mass in kg is that mass times MEV_TO_KG; the line shows
\* both in their formats.  The products are written out: 1.234567 MeV is
\* 2.20081557858864e-30 kg, written 2.2008155786e-30 and shown as 1.23457;
\* a catalog mass of 0 is 0 kg, written 0.0 and shown as 0.
C4_Conversion ==
    /\ \A n \in 1..Len(rows) :
          abs(rows[n].pdgid) \notin MasslessIds =>
             /\ Resolves(catalog, rows[n].pdgid)
             /\ catalog[rows[n].pdgid].mass.tag = "float"
             /\ rows[n].m_mev = catalog[rows[n].pdgid].mass.val
             /\ rows[n].m_mev \in {0, 1234567}
             /\ rows[n].m_kg = IF rows[n].m_mev = 0 THEN <<>>
                               ELSE <<4, 6, 8, 8, 5, 8, 7, 5, 5, 1, 8, 0, 0, 2, 2>>
    /\ pc \in WritingPcs =>
          \A n \in 1..Len(RowLines) :
             abs(RowLines[n].pdgid) \notin MasslessIds =>
                IF catalog[RowLines[n].pdgid].mass.val = 0
                THEN /\ RowLines[n].mass_kg.text = "0.0"
                     /\ RowLines[n].mass_mev = [digits |-> <<0>>, exp |-> 0]
                ELSE /\ RowLines[n].mass_kg.text # "0.0"
                     /\ RowLines[n].mass_kg.digits = <<6, 8, 7, 5, 5, 1, 8, 0, 0, 2, 2>>
                     /\ RowLines[n].mass_kg.exp = 14
                     /\ RowLines[n].mass_mev = [digits |-> <<7, 5, 4, 3, 2, 1>>, exp |-> 6]

\* C4 witness: a finished run that wrote the line of an ordinary identifier
\* with a nonzero catalog mass.
C4_Witness ==
    /\ pc = "done"
    /\ \E n \in 1..Len(RowLines) :
          /\ abs(RowLines[n].pdgid) \notin MasslessIds
          /\ catalog[RowLines[n].pdgid].mass = Float(1234567)

\* The rows of the group aid.
RowsOf(aid) == { n \in 1..Len(rows) : abs(rows[n].pdgid) = aid }

\* The representative is +id whenever the catalog holds +id, and negative
\* only when +id does not resolve.
RepresentativeRule ==
    \A a \in DOMAIN absid_to_pdgid :
       /\ Resolves(catalog, a) => absid_to_pdgid[a] = a
       /\ absid_to_pdgid[a] < 0 => ~Resolves(catalog, a)
       /\ absid_to_pdgid[a] \in {a, -a}

\* The surviving groups of which the catalog holds both signs.
BothSigns ==
    { a \in SurvivingAbs(catalog) : Resolves(catalog, a) /\ Resolves(catalog, -a) }

\* C5 as stated: the representative rule, and a catalog holding both +id and
\* -id yields exactly one row, carrying +id.
C5_Original ==
    /\ RepresentativeRule
    /\ pc = "done" =>
          \A a \in BothSigns :
             Cardinality(RowsOf(a)) = 1 /\ \A n \in RowsOf(a) : rows[n].pdgid = a

\* C5 amended: the representative rule holds, and a catalog holding both +id
\* and -id yields at most one row for the group, carrying +id; it yields
\* that row exactly when the id is massless by convention or the catalog
\* mass of +id is present and not NaN (the mass of -id is never consulted).
C5_Representative ==
    /\ RepresentativeRule
    /\ pc = "done" =>
          \A a \in BothSigns :
             /\ Cardinality(RowsOf(a)) <= 1
             /\ \A n \in RowsOf(a) : rows[n].pdgid = a
             /\ RowsOf(a) # {} <=> (a \in MasslessIds \/ catalog[a].mass.tag = "float")

\* C5 witness: a finished run over a catalog that holds 11 and -11, the
\* negative one enumerated first, with the row of 11 written.
C5_Witness ==
    /\ pc = "done"
    /\ order = <<-11, 11>>
    /\ Len(RowLines) = 1
    /\ RowLines[1].pdgid = 11

\* C6: once the row loop has ended, a surviving group has a row if and only
\* if its absolute identifier is massless by convention or the catalog mass
\* of its representative is present and not NaN; the script never dies of an
\* unresolvable mass, and a finished run has written the line of every row.
C6_RowIffMass ==
    /\ pc \in {"folder", "open"} \cup WritingPcs =>
          /\ DOMAIN absid_to_pdgid = SurvivingAbs(catalog)
          /\ \A a \in DOMAIN absid_to_pdgid :
                RowsOf(a) # {} <=>
                   \/ a \in MasslessIds
                   \/ catalog[absid_to_pdgid[a]].mass.tag = "float"
    /\ pc = "exit" => exitMsg \in {"ModuleNotFoundError: gitHelp",
                                   "This script requires 'particle'"}
    /\ pc = "done" =>
          /\ Len(RowLines) = Len(rows)
          /\ \A n \in 1..Len(rows) : RowLines[n].pdgid = rows[n].pdgid

\* C6 witness: a finished run over a catalog with a group whose mass is NaN
\* and a group whose line was written.
C6_Witness ==
    /\ pc = "done"
    /\ \E a \in DOMAIN absid_to_pdgid :
          a \notin MasslessIds /\ catalog[absid_to_pdgid[a]].mass = NaN
    /\ Len(RowLines) = 1

\* C7: when the particle import fails the script exits with the
\* instructional message and the directory and the file are as the run
\* found them; no statement before the output folder block touches them, and
\* the directory is created and the file opened only after the import guard
\* was passed and both loops over the catalog have ended.
C7_ExitBeforeOutput ==
    /\ exitMsg = "This script requires 'particle'" => pc = "exit" /\ DiskUntouched
    /\ pc \in EarlyPcs => DiskUntouched
    /\ ~DiskUntouched =>
          /\ pc \in {"open"} \cup WritingPcs
          /\ i > Len(order)
          /\ j > Len(Sorted(DOMAIN absid_to_pdgid))
          /\ exitMsg = ""

\* C7 witness: the script has exited on the failed particle import, with
\* neither the directory nor the file in existence.
C7_Witness ==
    /\ pc = "exit"
    /\ exitMsg = "This script requires 'particle'"
    /\ ~folderExists
    /\ ~fileExists
    /\ Len(order) = 2

\* C8 as stated: no failure to obtain the revision hash (provider
\* unavailable, call raises, value unusable) is fatal; the script writes the
\* header and every payload row, and the version line exactly when the
\* lookup succeeded.
C8_HashFailureNonFatal ==
    /\ exitMsg # "ModuleNotFoundError: gitHelp"
    /\ pc = "done" =>
          /\ fileLines[1] = HeaderLine
          /\ Len(RowLines) = Len(rows)
          /\ (\E n \in 1..Len(fileLines) : fileLines[n].kind = "version")
                <=> git_hash = "a1b2c3"

\* C9 as stated: when the positive lookup has failed for a group, some other
\* iteration order of the same catalog records stores a representative of
\* another sign.
C9_OrderDependent ==
    (/\ pc = "rows"
     /\ \E a \in DOMAIN absid_to_pdgid : ~Resolves(catalog, a)) =>
       \E o \in Orders(DOMAIN catalog) :
          \E a \in DOMAIN absid_to_pdgid :
             GroupFrom(catalog, <<>>, o, 1)[a] # absid_to_pdgid[a]

\* C9 amended: iteration order does not affect the representative.  The
\* positive lookup fails only when the catalog holds no record of +id, so
\* the group then holds -id alone; every iteration order of the same catalog
\* records stores the same map.
C9_OrderIndependent ==
    (pc = "rows" /\ j = 1) =>
       \A o \in Orders(DOMAIN catalog) :
          GroupFrom(catalog, <<>>, o, 1) = absid_to_pdgid

\* C9 witness: the grouping loop has ended over two records, the positive
\* lookup failed for a group and its negative identifier was stored.
C9_Witness ==
    /\ pc = "rows"
    /\ j = 1
    /\ Len(order) = 2
    /\ \E a \in DOMAIN absid_to_pdgid : ~Resolves(catalog, a) /\ absid_to_pdgid[a] = -a

\* C10 as stated: the file is rebuilt atomically: at every moment it holds
\* either the content the run found or the complete new content.
C10_Atomic ==
    \/ fileLines = disk0.lines
    \/ fileLines = ExpectedFile(catalog, git_hash)

\* Whether the lines hold a version line.
HasVersion(lines) == \E n \in 1..Len(lines) : lines[n].kind = "version"

\* C10 amended: the file is rebuilt from scratch but not atomically.  The
\* open truncates it and the lines are appended one by one, so from the open
\* to the close it holds a prefix of the new content, none of the old; the
\* file of a finished run is determined by the catalog and the outcome of
\* the revision lookup alone, and a second run with the same outcome leaves
\* the same file.
C10_RebuiltFromScratch ==
    /\ pc \in WritingPcs => IsPrefix(fileLines, ExpectedFile(catalog, git_hash))
    /\ pc = "done" => fileLines = ExpectedFile(catalog, git_hash)
    /\ (/\ pc = "done"
        /\ disk0.exists
        /\ disk0.lines # <<StaleLine>>
        /\ HasVersion(disk0.lines) <=> HasVersion(fileLines)) => fileLines = disk0.lines

\* C10 witness: a finished run that found the file of an earlier run, with a
\* version line and a payload line, and obtained no revision hash itself.
C10_Witness ==
    /\ pc = "done"
    /\ HasVersion(disk0.lines)
    /\ Len(disk0.lines) = 3
    /\ ~HasVersion(fileLines)
    /\ Len(fileLines) = 2

====
